---- MODULE Spec2Model ----
(***************************************************************************)
(* Model of src/src/executor/vm/jit.rs: the two-phase state machine        *)
(* JitPrototype -> Jit that drives a WebAssembly module through a          *)
(* coroutine.  The driver side (new, global_value, start, run,             *)
(* read_memory, write_memory) and the body routine (the closure given to   *)
(* the coroutine builder, with the import trampolines) are both modelled;  *)
(* every driver call is one action that runs the body up to its next       *)
(* suspension point.  The coroutine primitive itself (mod coroutine) and   *)
(* the WASM engine are collaborators: the coroutine is modelled from its   *)
(* contract, the engine's execution of the entry function is a             *)
(* nondeterministic choice of its next effect (import call, return, trap). *)
(* Machine words are scaled down to small widths (U32Max, UsizeWide).      *)
(***************************************************************************)
EXTENDS Integers, Sequences, FiniteSets, TLC

\* ------------------------------------------------------------------ bounds

\* Largest number of imports of a module.
MaxImports == 2
\* Largest number of import calls the entry function makes.
MaxCalls == 2
\* Values exchanged with imports are 0..MaxVal.
MaxVal == 1
\* Byte length of a linear memory (scaled down from 64 KiB pages).
MemLen == 2
\* Longest byte string handed to write_memory.
MaxWrite == 2
\* u32::MAX, scaled down: u32 values are 0..U32Max.
U32Max == 255
\* usize::MAX on a target whose usize is wider than u32, scaled down.
UsizeWide == 1000

\* ------------------------------------------------------------------ values

\* Option<T> is a sequence of length at most one.
None == <<>>
Some(x) == <<x>>

Vals == 0..MaxVal
OptVals == {None} \cup {Some(x) : x \in Vals}
\* The byte values the model distinguishes.
Bytes == {0, 1}

\* ------------------------------------------------------------------ modules

\* The import kinds of wasmtime::ExternType, as `new` distinguishes them.  A
\* function import carries what the resolver `symbols` answers for it
\* (idx >= 0: Ok(idx); idx = -1: Err(())) and the number of results of its
\* signature.
ImportTypes ==
  { [kind |-> "func",   idx |-> 5,  nres |-> 0],
    [kind |-> "func",   idx |-> 3,  nres |-> 1],
    [kind |-> "func",   idx |-> -1, nres |-> 1],
    [kind |-> "memory", idx |-> 0,  nres |-> 0],
    [kind |-> "global", idx |-> 0,  nres |-> 0],
    [kind |-> "table",  idx |-> 0,  nres |-> 0] }

ImportLists == UNION { [1..n -> ImportTypes] : n \in 0..MaxImports }

\* An export: its extern kind; for a function the number of results, for a
\* global its value type and (signed) value.
NoExport == [kind |-> "none",   ty |-> "",    n |-> 0]
FuncExport(nres) == [kind |-> "func", ty |-> "", n |-> nres]
MemoryExport == [kind |-> "memory", ty |-> "",    n |-> 0]
TableExport == [kind |-> "table",  ty |-> "",    n |-> 0]
GlobalExport(ty, v) == [kind |-> "global", ty |-> ty, n |-> v]

ExportNames == {"memory", "__indirect_function_table", "main", "g"}
\* Names the driver asks for: the exports and one name no module exports.
Names == ExportNames \cup {"missing"}

ExportChoices(name) ==
  CASE name = "memory" -> {NoExport, MemoryExport, FuncExport(0)}
    [] name = "__indirect_function_table" -> {NoExport, TableExport, FuncExport(0)}
    [] name = "main" -> {NoExport, FuncExport(0), FuncExport(1)}
    [] OTHER -> {GlobalExport("i32", 42), GlobalExport("i32", -1), GlobalExport("i64", 7)}

ExportMaps == { e \in [ExportNames -> UNION {ExportChoices(n) : n \in ExportNames}] :
                  \A n \in ExportNames : e[n] \in ExportChoices(n) }

\* instance.get_export(name)
get_export(m, name) == IF name \in ExportNames THEN m.exports[name] ELSE NoExport

Modules == [imports : ImportLists, exports : ExportMaps]


\* ------------------------------------------------------------------ state

VARIABLES
  module,           \* the compiled module given to new (fixed)
  usize_max,        \* usize::MAX of the build target (fixed)
  phase,            \* "init" | "proto" | "jit" | "failed" | "panicked"
  body,             \* the body routine: its suspension point and its locals
  imported_memory,  \* JitPrototype::imported_memory is Some
  jit,              \* Jit::memory and Jit::indirect_table
  mem,              \* contents of the module's linear memory
  call,             \* the last driver call
  ret,              \* what the last driver call returned
  finished_seen,    \* some run() has returned ExecOutcome::Finished
  wrote,            \* the last successful write_memory, until the next run()
  exch,             \* the requests the last driver call made of the body, each
                    \* with the body's suspension point and its answer
  nruns,            \* run() calls that resumed the body and returned an outcome
  ctl               \* who holds control: the driver or the body

vars == <<module, usize_max, phase, body, imported_memory, jit, mem, call, ret,
          finished_seen, wrote, exch, nruns, ctl>>

\* A driver call and its result.
Call(op, name, off, v) == [op |-> op, name |-> name, off |-> off, v |-> v]
Ret(k, e, id, v) == [k |-> k, e |-> e, id |-> id, v |-> v]
NoCall == Call("none", "", 0, None)
NoRet == Ret("none", "", 0, None)

\* ------------------------------------------------------------------ messages

\* enum ToCoroutine; NoReq is the None of the first coroutine.run(None).
NoReq == [t |-> "None", name |-> "", v |-> None]
ReqStart(n) == [t |-> "Start", name |-> n, v |-> None]
ReqResume(v) == [t |-> "Resume", name |-> "", v |-> v]
ReqGetMemoryTable == [t |-> "GetMemoryTable", name |-> "", v |-> None]
ReqGetGlobal(n) == [t |-> "GetGlobal", name |-> n, v |-> None]

\* coroutine::RunOut: Interrupted(FromCoroutine) or Finished(Result), and a
\* panic raised inside the body, which the run never returns from.
Msg(t, e, id, v, m, tb) == [t |-> t, e |-> e, id |-> id, v |-> v, mem |-> m, tbl |-> tb]
MsgInit(e) == Msg("Init", e, 0, None, FALSE, FALSE)
MsgInterrupt(function_index, parameters) ==
  Msg("Interrupt", "", function_index, parameters, FALSE, FALSE)
MsgGetMemoryTableResponse(memory, indirect_table) ==
  Msg("GetMemoryTableResponse", "", 0, None, memory, indirect_table)
MsgGetGlobalResponse(e, value) == Msg("GetGlobalResponse", e, value, None, FALSE, FALSE)
MsgFinished(e, val) == Msg("Finished", e, 0, val, FALSE, FALSE)
MsgPanic(site) == Msg("Panic", site, 0, None, FALSE, FALSE)
NoMsg == Msg("None", "", 0, None, FALSE, FALSE)

\* Control between driver calls: the driver runs and the body is parked.
\* driver: "idle" between calls, "blocked" inside coroutine.run, "returned"
\* from it with the message out; body: "parked" or "running"; req: the request
\* the body was resumed with; pc0: where it was parked.
Ctl0 == [driver |-> "idle", body |-> "parked", req |-> NoReq, out |-> NoMsg, pc0 |-> ""]

\* ------------------------------------------------------------------ body

\* The body routine before its first run.  pc is the suspension point:
\*   "unstarted"  not yet run
\*   "loop"       parked in the request loop (interrupt of line 139, 155 or 159)
\*   "dead"       parked after an Init(Err) (line 119, 132, 175 or 180)
\*   "ack"        parked after the second Init(Ok) (line 185)
\*   "import"     parked in an import trampoline (line 70)
\*   "finished"   returned
\* memory/indirect_table: the locals of lines 114 and 126 are Some;
\* start_nres: number of results of the start function; pos/nres: the parked
\* import and its number of results; acc: the value the last import call
\* returned to the WASM code; args: the arguments of the parked import call;
\* result: the values start_function.call returned; trapped: it returned a
\* trap; ncalls: import calls made so far; invoked: line 190 was reached;
\* parked: the import trampolines now waiting in interrupter.interrupt.
Body0 ==
  [pc |-> "unstarted", memory |-> FALSE, indirect_table |-> FALSE, start_nres |-> 0,
   pos |-> 0, nres |-> 0, args |-> <<>>, acc |-> None, result |-> <<>>,
   trapped |-> FALSE, ncalls |-> 0, invoked |-> FALSE, parked |-> 0]

Step(b, out) == [b |-> b, out |-> out]

\* One coroutine.run(..) of the driver: where the body was parked, the request
\* it was resumed with and the message it answered.
Exch(b, req, out) == [pc |-> b.pc, req |-> req.t, out |-> out.t]

\* A body that looks at the table export before the memory export.
BodyFirstTableFirst(m, b) ==
  LET memx == get_export(m, "memory")
      tblx == get_export(m, "__indirect_function_table")
  IN  IF tblx.kind \notin {"none", "table"}
        THEN Step([b EXCEPT !.pc = "dead"], MsgInit("IndirectTableIsntTable"))
      ELSE IF memx.kind \notin {"none", "memory"}
        THEN Step([b EXCEPT !.pc = "dead", !.indirect_table = (tblx.kind = "table")],
                  MsgInit("MemoryIsntMemory"))
      ELSE Step([b EXCEPT !.pc = "loop", !.memory = (memx.kind = "memory"),
                          !.indirect_table = (tblx.kind = "table")],
                MsgInit(""))

\* Lines 112-139: instantiate, look for the memory and table exports, emit the
\* first Init.
BodyFirst(m, b) ==
  LET memx == get_export(m, "memory")
      tblx == get_export(m, "__indirect_function_table")
  IN  IF memx.kind \notin {"none", "memory"}
        THEN Step([b EXCEPT !.pc = "dead"], MsgInit("MemoryIsntMemory"))
      ELSE IF tblx.kind \notin {"none", "table"}
        THEN Step([b EXCEPT !.pc = "dead", !.memory = (memx.kind = "memory")],
                  MsgInit("IndirectTableIsntTable"))
      ELSE Step([b EXCEPT !.pc = "loop", !.memory = (memx.kind = "memory"),
                          !.indirect_table = (tblx.kind = "table")],
                MsgInit(""))

\* A conversion that takes the magnitude of a negative word.
ToUnsignedMagnitude(v) == IF v < 0 THEN 0 - v ELSE v

\* Line 147: u32::from_ne_bytes(v.to_ne_bytes()), the two's complement
\* reinterpretation of a signed word as an unsigned one.
ToUnsigned(v) == IF v < 0 THEN v + U32Max + 1 ELSE v

\* A GetGlobal handler that never answers Invalid.
GetGlobalNeverInvalid(m, global) ==
  LET x == get_export(m, global)
  IN  IF x.kind = "global" /\ x.ty = "i32"
        THEN MsgGetGlobalResponse("", IF x.n < 0 THEN x.n + U32Max + 1 ELSE x.n)
        ELSE MsgGetGlobalResponse("NotFound", 0)

\* Lines 143-152: the GetGlobal handler.
GetGlobal(m, global) ==
  LET x == get_export(m, global)
  IN  IF x.kind = "global"
        THEN IF x.ty = "i32" THEN MsgGetGlobalResponse("", ToUnsigned(x.n))
                             ELSE MsgGetGlobalResponse("Invalid", 0)
        ELSE MsgGetGlobalResponse("NotFound", 0)

\* A start that does not check that the export is a function.
BodyStartNoKindCheck(m, b, start_function_name) ==
  LET f == get_export(m, start_function_name)
  IN  IF f.kind = "none"
        THEN Step([b EXCEPT !.pc = "dead"], MsgInit("FunctionNotFound"))
      ELSE Step([b EXCEPT !.pc = "ack", !.start_nres = 0], MsgInit(""))

\* Lines 169-185: resolve the start function, emit the second Init.
BodyStart(m, b, start_function_name) ==
  LET f == get_export(m, start_function_name)
  IN  IF f.kind = "none"
        THEN Step([b EXCEPT !.pc = "dead"], MsgInit("FunctionNotFound"))
      ELSE IF f.kind # "func"
        THEN Step([b EXCEPT !.pc = "dead"], MsgInit("NotAFunction"))
      ELSE Step([b EXCEPT !.pc = "ack", !.start_nres = f.n], MsgInit(""))

\* A request loop whose GetGlobal turn gives the memory handle away.
RequestLoopGlobalTakesMemory(m, b, request) ==
  CASE request.t = "Start" -> BodyStart(m, b, request.name)
    [] request.t = "GetGlobal" ->
         Step([b EXCEPT !.memory = FALSE], GetGlobal(m, request.name))
    [] request.t = "GetMemoryTable" ->
         Step(b, MsgGetMemoryTableResponse(b.memory, b.indirect_table))
    [] OTHER -> Step(b, MsgPanic("todo@165"))

\* A request loop that knows no GetMemoryTable request.
RequestLoopNoMemoryTable(m, b, request) ==
  CASE request.t = "Start" -> BodyStart(m, b, request.name)
    [] request.t = "GetGlobal" -> Step(b, GetGlobal(m, request.name))
    [] OTHER -> Step(b, MsgPanic("todo@165"))

\* Lines 140-167: one turn of the request loop.
RequestLoop(m, b, request) ==
  CASE request.t = "Start" -> BodyStart(m, b, request.name)
    [] request.t = "GetGlobal" -> Step(b, GetGlobal(m, request.name))
    [] request.t = "GetMemoryTable" ->
         Step(b, MsgGetMemoryTableResponse(b.memory, b.indirect_table))
    [] OTHER -> Step(b, MsgPanic("todo@165"))

\* Positions of the function imports of m.
FuncImports(m) == { p \in DOMAIN m.imports : m.imports[p].kind = "func" }

\* A trampoline that does not carry the index the resolver gave.
TrampolineNoIndex(function_index, params) == MsgInterrupt(0, params)

\* Lines 64-73: the trampoline of a function import packages the call as an
\* Interrupt carrying the resolved index and the parameters.
Trampoline(function_index, params) == MsgInterrupt(function_index, params)

\* The body's result with the branches of result.is_empty() exchanged.
BodyResultSwapped(result) ==
  IF Len(result) > 1 THEN MsgPanic("assert@193")
  ELSE IF Len(result) = 0 THEN MsgFinished("", Some(0))
  ELSE MsgFinished("", None)

\* Lines 192-198: the body's own result from what the start function returned.
BodyResult(result) ==
  IF Len(result) > 1 THEN MsgPanic("assert@193")
  ELSE IF Len(result) = 0 THEN MsgFinished("", None)
  ELSE MsgFinished("", Some(result[1]))

\* Line 190 onwards: the WASM code runs until its next effect.  The engine is
\* a collaborator: the code either calls one of its function imports with
\* some argument, returns (as many values as its signature says), or traps.
EntryRun(m, b) ==
  { Step([b EXCEPT !.pc = "import", !.pos = p, !.nres = m.imports[p].nres,
                   !.args = <<x>>, !.ncalls = b.ncalls + 1, !.parked = b.parked + 1],
         Trampoline(m.imports[p].idx, <<x>>))
      : p \in IF b.ncalls < MaxCalls THEN FuncImports(m) ELSE {}, x \in Vals }
  \cup
  { Step([b EXCEPT !.pc = "finished", !.result = res], BodyResult(res))
      : res \in IF b.start_nres = 0 THEN {<<>>} ELSE {<<x>> : x \in Vals} }
  \cup
  { Step([b EXCEPT !.pc = "finished", !.trapped = TRUE], MsgFinished("trap", None)) }

\* A trampoline that takes any resume, whatever the import's result arity.
TrampolineResumeUnchecked(m, b, returned) ==
  EntryRun(m, [b EXCEPT !.acc = returned.v, !.parked = b.parked - 1])

\* Lines 74-84: the trampoline takes the resumed value as the call's return.
TrampolineResume(m, b, returned) ==
  IF returned.t # "Resume" THEN {Step(b, MsgPanic("unreachable@76"))}
  ELSE IF returned.v # None
    THEN IF b.nres = 1
           THEN EntryRun(m, [b EXCEPT !.acc = returned.v, !.parked = b.parked - 1])
           ELSE {Step(b, MsgPanic("assert@79"))}
    ELSE IF b.nres = 0 THEN EntryRun(m, [b EXCEPT !.parked = b.parked - 1])
                       ELSE {Step(b, MsgPanic("assert@82"))}

\* A body that answers the acknowledgment with its Init once more.
AckResumeInitAgain(m, b, reinjected) == {Step(b, MsgInit(""))}

\* A body that takes any resume for the acknowledgment.
AckResumeAnyPayload(m, b, reinjected) == EntryRun(m, [b EXCEPT !.invoked = TRUE])

\* Lines 185-190: the acknowledgment of the second Init, then the entry call.
AckResume(m, b, reinjected) ==
  IF reinjected.t = "Resume" /\ reinjected.v = None
    THEN EntryRun(m, [b EXCEPT !.invoked = TRUE])
    ELSE {Step(b, MsgPanic("assert@186"))}

\* The body routine resumed at its suspension point with a request.
BodyResume(m, b, req) ==
  CASE b.pc = "unstarted" -> {BodyFirst(m, b)}
    [] b.pc = "loop" -> {RequestLoop(m, b, req)}
    [] b.pc = "ack" -> AckResume(m, b, req)
    [] b.pc = "import" -> TrampolineResume(m, b, req)
    [] OTHER -> {Step([b EXCEPT !.pc = "finished"], MsgFinished("", None))}

\* ------------------------------------------------------------------ coroutine

\* Coroutine::is_finished
is_finished(b) == b.pc = "finished"

\* Coroutine::run: resumes the body; a finished coroutine cannot be run.
CoRun(m, b, req) ==
  IF is_finished(b) THEN {Step(b, MsgPanic("coroutine finished"))}
  ELSE BodyResume(m, b, req)

\* Coroutine::run, entered: the caller waits and the body goes on from where
\* it is parked, with the request.
CoEnter(c, req, pc0) ==
  [c EXCEPT !.driver = "blocked", !.body = "running", !.req = req, !.pc0 = pc0]

\* A coroutine whose body goes on after it has handed its message over.
CoYieldBodyGoesOn(c, out) == [c EXCEPT !.driver = "returned", !.out = out]

\* The interrupter's interrupt, or the return of the body: the body stops and
\* Coroutine::run returns the message to its caller.
CoYield(c, out) == [c EXCEPT !.driver = "returned", !.body = "parked", !.out = out]


\* ------------------------------------------------------------------ driver

\* A panic of the driver or of the body ends the execution: nothing of the
\* object is observable afterwards.
Panicked(c, site) ==
  /\ phase' = "panicked"
  /\ call' = c
  /\ ret' = Ret("Panic", site, 0, None)
  /\ exch' = <<>>
  /\ ctl' = Ctl0
  /\ UNCHANGED <<module, usize_max, body, imported_memory, jit, mem, finished_seen, wrote,
                 nruns>>

\* Lines 56-105: the loop of `new` over the imports, from position i on.
\* st is "ok" or the site of the panic that ends the loop; memory tells
\* whether imported_memory is Some.
RECURSIVE ImportLoop(_, _, _)
ImportLoop(imports, i, memory) ==
  IF i > Len(imports) THEN [st |-> "ok", memory |-> memory]
  ELSE LET import == imports[i]
       IN  CASE import.kind = "func" ->
                  IF import.idx < 0 THEN [st |-> "unwrap@63", memory |-> memory]
                  ELSE ImportLoop(imports, i + 1, memory)
             [] import.kind = "global" -> [st |-> "unimplemented@88", memory |-> memory]
             [] import.kind = "table" -> [st |-> "unimplemented@89", memory |-> memory]
             [] OTHER ->
                  IF memory THEN [st |-> "assert@93", memory |-> memory]
                  ELSE ImportLoop(imports, i + 1, TRUE)

\* Lines 204-208, 243-246: what the driver makes of the answer to its first
\* run and to its Start request.
InitMatch(out) ==
  CASE out.t = "Init" /\ out.e # "" -> "err"
    [] out.t = "Init" /\ out.e = "" -> "ok"
    [] out.t = "Panic" -> "panic"
    [] OTHER -> "unreachable"

\* JitPrototype::new
new ==
  /\ phase = "init"
  /\ LET c == Call("new", "", 0, None)
         imp == ImportLoop(module.imports, 1, FALSE)
     IN  IF imp.st # "ok" THEN Panicked(c, imp.st)
         ELSE \E r \in CoRun(module, body, NoReq) :
                CASE InitMatch(r.out) = "err" ->
                       /\ phase' = "failed"
                       /\ ret' = Ret("Err", r.out.e, 0, None)
                       /\ call' = c
                       /\ body' = r.b
                       /\ imported_memory' = imp.memory
                       /\ exch' = <<Exch(body, NoReq, r.out)>>
                       /\ UNCHANGED <<module, usize_max, jit, mem, finished_seen, wrote,
                                      nruns, ctl>>
                  [] InitMatch(r.out) = "ok" ->
                       /\ phase' = "proto"
                       /\ ret' = Ret("Ok", "", 0, None)
                       /\ call' = c
                       /\ body' = r.b
                       /\ imported_memory' = imp.memory
                       /\ exch' = <<Exch(body, NoReq, r.out)>>
                       /\ UNCHANGED <<module, usize_max, jit, mem, finished_seen, wrote,
                                      nruns, ctl>>
                  [] InitMatch(r.out) = "panic" -> Panicked(c, r.out.e)
                  [] OTHER -> Panicked(c, "unreachable@207")

\* Lines 218-224: what global_value makes of the body's answer.
GlobalValueMatch(out) ==
  CASE out.t = "GetGlobalResponse" /\ out.e = "" -> Ret("Ok", "", out.id, None)
    [] out.t = "GetGlobalResponse" -> Ret("Err", out.e, 0, None)
    [] out.t = "Panic" -> Ret("Panic", out.e, 0, None)
    [] OTHER -> Ret("Panic", "unreachable@223", 0, None)

\* JitPrototype::global_value
global_value(name) ==
  /\ phase = "proto"
  /\ LET c == Call("global_value", name, 0, None)
     IN  \E r \in CoRun(module, body, ReqGetGlobal(name)) :
           LET res == GlobalValueMatch(r.out)
           IN  IF res.k = "Panic" THEN Panicked(c, res.e)
               ELSE /\ ret' = res
                    /\ call' = c
                    /\ body' = r.b
                    /\ exch' = <<Exch(body, ReqGetGlobal(name), r.out)>>
                    /\ UNCHANGED <<module, usize_max, phase, imported_memory, jit, mem,
                                   finished_seen, wrote, nruns, ctl>>

\* Lines 248-254: the memory of the running machine.
ResolveMemory(exported_memory, imported) ==
  CASE exported_memory /\ imported -> "unimplemented@250"
    [] exported_memory /\ ~imported -> "exported"
    [] ~exported_memory /\ imported -> "imported"
    [] OTHER -> "none"

\* JitPrototype::start (params is not used by the code)
start(function_name) ==
  /\ phase = "proto"
  /\ LET c == Call("start", function_name, 0, None)
     IN  \E r1 \in CoRun(module, body, ReqGetMemoryTable) :
           IF r1.out.t # "GetMemoryTableResponse"
             THEN Panicked(c, IF r1.out.t = "Panic" THEN r1.out.e ELSE "unreachable@236")
           ELSE \E r2 \in CoRun(module, r1.b, ReqStart(function_name)) :
             CASE InitMatch(r2.out) = "err" ->
                    /\ phase' = "failed"
                    /\ ret' = Ret("Err", r2.out.e, 0, None)
                    /\ call' = c
                    /\ body' = r2.b
                    /\ exch' = <<Exch(body, ReqGetMemoryTable, r1.out),
                                 Exch(r1.b, ReqStart(function_name), r2.out)>>
                    /\ UNCHANGED <<module, usize_max, imported_memory, jit, mem,
                                   finished_seen, wrote, nruns, ctl>>
               [] InitMatch(r2.out) = "ok" ->
                    LET memory == ResolveMemory(r1.out.mem, imported_memory)
                    IN  IF memory = "unimplemented@250" THEN Panicked(c, memory)
                        ELSE /\ phase' = "jit"
                             /\ jit' = [memory |-> memory, indirect_table |-> r1.out.tbl]
                             /\ ret' = Ret("Ok", "", 0, None)
                             /\ call' = c
                             /\ body' = r2.b
                             /\ exch' = <<Exch(body, ReqGetMemoryTable, r1.out),
                                          Exch(r1.b, ReqStart(function_name), r2.out)>>
                             /\ UNCHANGED <<module, usize_max, imported_memory, mem,
                                            finished_seen, wrote, nruns, ctl>>
               [] InitMatch(r2.out) = "panic" -> Panicked(c, r2.out.e)
               [] OTHER -> Panicked(c, "unreachable@245")

\* No write_memory is remembered.
NoWrite == [valid |-> FALSE, off |-> 0, bytes |-> <<>>]

\* An is_poisoned that answers the opposite of the coroutine's state.
is_poisoned_inverted == ~is_finished(body)

\* Jit::is_poisoned
is_poisoned == is_finished(body)

\* Jit::run without its poisoned check.
PoisonedCheckNever(finished) == FALSE

\* Lines 328-330: the check that opens Jit::run.
PoisonedCheck(finished) == finished

\* A Jit::run with the Interrupted arm in the place of the Finished one.
RunMatchInterruptAsFinished(out) ==
  CASE out.t = "Finished" /\ out.e # "" -> Ret("Finished", "Err", 0, None)
    [] out.t = "Finished" -> Ret("Interrupted", "", 0, out.v)
    [] out.t = "Interrupt" -> Ret("Finished", "", 0, None)
    [] OTHER -> Ret("Panic", out.e, 0, None)

\* A Jit::run that reports the trap of the entry function as an error of run.
RunMatchTrapAsErr(out) ==
  CASE out.t = "Finished" /\ out.e # "" -> Ret("Err", "Trap", 0, None)
    [] out.t = "Finished" -> Ret("Finished", "", 0, out.v)
    [] out.t = "Interrupt" -> Ret("Interrupted", "", out.id, out.v)
    [] OTHER -> Ret("Panic", out.e, 0, None)

\* Lines 339-365: the execution outcome Jit::run makes of the coroutine's.
RunMatch(out) ==
  CASE out.t = "Finished" /\ out.e # "" -> Ret("Finished", "Err", 0, None)
    [] out.t = "Finished" -> Ret("Finished", "", 0, out.v)
    [] out.t = "Interrupt" -> Ret("Interrupted", "", out.id, out.v)
    [] out.t = "Panic" -> Ret("Panic", out.e, 0, None)
    [] out.t = "Init" -> Ret("Panic", "unreachable@358", 0, None)
    [] out.t = "GetGlobalResponse" -> Ret("Panic", "unreachable@360", 0, None)
    [] OTHER -> Ret("Panic", "unreachable@363", 0, None)

\* The linear memory after the WASM code has run: the code either stores
\* nothing or flips every byte of the memory.
Scribble(data) == [i \in 1..Len(data) |-> 1 - data[i]]
MemAfterRun(b) == IF b.invoked /\ mem # <<>> THEN {mem, Scribble(mem)} ELSE {mem}

\* Lines 338-365: Jit::run from the return of coroutine.run on.  pc0 is where
\* the body was parked before, r where it is now and the message it gave.
RunReturn(c, pc0, r) ==
  LET res == RunMatch(r.out)
  IN  IF res.k = "Panic" THEN Panicked(c, res.e)
      ELSE /\ ret' = res
           /\ call' = c
           /\ body' = r.b
           /\ mem' \in MemAfterRun(r.b)
           /\ finished_seen' = (finished_seen \/ res.k = "Finished")
           /\ wrote' = NoWrite
           /\ exch' = <<Exch([pc |-> pc0], ReqResume(c.v), r.out)>>
           /\ nruns' = nruns + 1
           /\ ctl' = Ctl0
           /\ UNCHANGED <<module, usize_max, phase, imported_memory, jit>>

\* Lines 328-330: Jit::run on a poisoned machine.
RunPoisoned(c) ==
  /\ ret' = Ret("Err", "Poisoned", 0, None)
  /\ call' = c
  /\ exch' = <<>>
  /\ UNCHANGED <<module, usize_max, phase, body, imported_memory, jit, mem,
                 finished_seen, wrote, nruns, ctl>>

\* Jit::run
run(value) ==
  /\ phase = "jit"
  /\ LET c == Call("run", "", 0, value)
     IN  IF PoisonedCheck(is_finished(body)) THEN RunPoisoned(c)
         ELSE \E r \in CoRun(module, body, ReqResume(value)) : RunReturn(c, body.pc, r)

\* Jit::run in three steps.  Lines 327-337: up to the call of coroutine.run.
RunEnter(value) ==
  /\ phase = "jit"
  /\ ctl.driver = "idle"
  /\ IF PoisonedCheck(is_finished(body)) THEN RunPoisoned(Call("run", "", 0, value))
     ELSE /\ ctl' = CoEnter(ctl, ReqResume(value), body.pc)
          /\ UNCHANGED <<module, usize_max, phase, body, imported_memory, jit, mem, call, ret,
                         finished_seen, wrote, exch, nruns>>

\* Lines 186-198 and 74-84: the body, resumed, runs to its next interrupt or to
\* its end.
BodyTurn ==
  /\ ctl.body = "running"
  /\ \E r \in CoRun(module, body, ctl.req) :
       /\ body' = r.b
       /\ ctl' = CoYield(ctl, r.out)
  /\ UNCHANGED <<module, usize_max, phase, imported_memory, jit, mem, call, ret,
                 finished_seen, wrote, exch, nruns>>

\* Lines 338-365: from the return of coroutine.run to the return of Jit::run.
RunExit ==
  /\ ctl.driver = "returned"
  /\ RunReturn(Call("run", "", 0, ctl.req.v), ctl.pc0, Step(body, ctl.out))


\* ------------------------------------------------------------------ memory

\* Jit::memory_size
memory_size == IF jit.memory = "none" THEN 0 ELSE Len(mem)

\* Lines 385-388, 401-402: the byte range [start, end) of an access, or
\* "err" when a conversion or the checked addition fails.
Range(offset, len) ==
  IF offset > usize_max \/ len > usize_max THEN [st |-> "err", lo |-> 0, hi |-> 0]
  ELSE IF offset + len > usize_max THEN [st |-> "err", lo |-> 0, hi |-> 0]
  ELSE [st |-> "ok", lo |-> offset, hi |-> offset + len]

\* Lines 393, 408: data[start..end]; indexing a slice past its length panics.
SliceOk(data, lo, hi) == lo <= hi /\ hi <= Len(data)

\* Jit::read_memory
read_memory(offset, size) ==
  /\ phase = "jit"
  /\ LET c == Call("read_memory", "", offset, <<size>>)
         r == Range(offset, size)
     IN  IF jit.memory = "none" \/ r.st = "err"
           THEN /\ ret' = Ret("Err", "()", 0, None)
                /\ call' = c
                /\ exch' = <<>>
                /\ UNCHANGED <<module, usize_max, phase, body, imported_memory, jit, mem,
                               finished_seen, wrote, nruns, ctl>>
         ELSE IF ~SliceOk(mem, r.lo, r.hi) THEN Panicked(c, "slice@393")
         ELSE /\ ret' = Ret("Ok", "", 0, SubSeq(mem, r.lo + 1, r.hi))
              /\ call' = c
              /\ exch' = <<>>
              /\ UNCHANGED <<module, usize_max, phase, body, imported_memory, jit, mem,
                             finished_seen, wrote, nruns, ctl>>

\* A write that copies into a temporary and leaves the memory as it was.
CopyFromSliceNothing(data, lo, hi, value) == data

\* Line 408: data[start..end].copy_from_slice(value)
CopyFromSlice(data, lo, hi, value) ==
  [i \in 1..Len(data) |-> IF lo < i /\ i <= hi THEN value[i - lo] ELSE data[i]]

\* Jit::write_memory
write_memory(offset, value) ==
  /\ phase = "jit"
  /\ LET c == Call("write_memory", "", offset, value)
         r == Range(offset, Len(value))
     IN  IF jit.memory = "none" \/ r.st = "err"
           THEN /\ ret' = Ret("Err", "()", 0, None)
                /\ call' = c
                /\ exch' = <<>>
                /\ UNCHANGED <<module, usize_max, phase, body, imported_memory, jit, mem,
                               finished_seen, wrote, nruns, ctl>>
         ELSE IF ~SliceOk(mem, r.lo, r.hi) THEN Panicked(c, "slice@408")
         ELSE /\ mem' = CopyFromSlice(mem, r.lo, r.hi, value)
              /\ wrote' = [valid |-> TRUE, off |-> offset, bytes |-> value]
              /\ ret' = Ret("Ok", "", 0, None)
              /\ call' = c
              /\ exch' = <<>>
              /\ UNCHANGED <<module, usize_max, phase, body, imported_memory, jit,
                             finished_seen, nruns, ctl>>

\* ------------------------------------------------------------------ behaviours

\* The module has a linear memory the host can reach.
HasMemory(m) ==
  \/ \E p \in DOMAIN m.imports : m.imports[p].kind = "memory"
  \/ m.exports["memory"].kind = "memory"

Zeros(n) == [i \in 1..n |-> 0]

InitWith(m, u) ==
  /\ module = m
  /\ usize_max = u
  /\ phase = "init"
  /\ body = Body0
  /\ imported_memory = FALSE
  /\ jit = [memory |-> "none", indirect_table |-> FALSE]
  /\ mem = IF HasMemory(m) THEN Zeros(MemLen) ELSE <<>>
  /\ call = NoCall
  /\ ret = NoRet
  /\ finished_seen = FALSE
  /\ wrote = NoWrite
  /\ exch = <<>>
  /\ nruns = 0
  /\ ctl = Ctl0

\* The engine only builds for targets whose usize is wider than u32.
Init == \E m \in Modules : InitWith(m, UsizeWide)

GlobalValue == \E name \in Names : global_value(name)
Start == \E name \in Names : start(name)
Run == \E value \in OptVals : run(value)

Next == new \/ GlobalValue \/ Start \/ Run

Spec == Init /\ [][Next]_vars

\* Offsets and sizes of memory accesses: around the memory's end, and the
\* largest u32.
Offsets == (0..(MemLen + 1)) \cup {U32Max}
WriteValues == UNION { [1..n -> Bytes] : n \in 0..MaxWrite }

ReadMemory == \E offset \in Offsets, size \in Offsets : read_memory(offset, size)
WriteMemory == \E offset \in Offsets, value \in WriteValues : write_memory(offset, value)

NextMem == Next \/ ReadMemory \/ WriteMemory

\* The modules the memory accesses are explored on: with and without an
\* imported memory, with and without an exported one, and a start function.
MemModules ==
  { m \in Modules :
      /\ \A p \in DOMAIN m.imports : m.imports[p].kind = "memory"
      /\ m.exports["memory"].kind \in {"none", "memory"}
      /\ m.exports["__indirect_function_table"] = NoExport
      /\ m.exports["main"] = FuncExport(0)
      /\ m.exports["g"] = GlobalExport("i32", 42) }

InitMem == \E m \in MemModules, u \in {U32Max, UsizeWide} : InitWith(m, u)

SpecMem == InitMem /\ [][NextMem]_vars

\* The behaviours in which the two sides of a run() take their steps apart.
RunEnters == \E value \in OptVals : RunEnter(value)
NextCo == new \/ GlobalValue \/ Start \/ RunEnters \/ BodyTurn \/ RunExit

SpecCo == Init /\ [][NextCo]_vars

\* The driver that answers the second Init with run(None) and every
\* Interrupted with a value of the arity of the parked import, and goes on
\* calling run() as long as the machine is not finished.
Answers(value) ==
  CASE body.pc = "ack" -> value = None
    [] body.pc = "import" -> (value = None) <=> (body.nres = 0)
    [] OTHER -> TRUE
RunAnswering == \E value \in OptVals : Answers(value) /\ run(value)
NextLive == new \/ GlobalValue \/ Start \/ RunAnswering

\* The modules the runs to the end are explored on: any imports, a start
\* function with or without a result, and exports of the right kind.
LiveModules ==
  { m \in Modules :
      /\ m.exports["memory"].kind \in {"none", "memory"}
      /\ m.exports["__indirect_function_table"] = NoExport
      /\ m.exports["main"].kind = "func"
      /\ m.exports["g"] = GlobalExport("i32", 42) }

InitLive == \E m \in LiveModules : InitWith(m, UsizeWide)

SpecLive == InitLive /\ [][NextLive]_vars /\ WF_vars(RunAnswering)


\* ------------------------------------------------------------------ claims

RetPoisoned == Ret("Err", "Poisoned", 0, None)

\* C1: once a run() has returned Finished, every later run() returns the
\* Poisoned error and executes nothing: the body and the memory stay as they
\* were, and no new outcome is produced.
C1_PoisonedAfterFinished ==
  [][(finished_seen /\ Run) =>
       (ret' = RetPoisoned /\ body' = body /\ mem' = mem /\ phase' = phase)]_vars

C1_Witness == finished_seen /\ call.op = "run" /\ ret = RetPoisoned

\* What C2 says of the state after a run(): an Interrupted outcome carries the
\* resolved index of the import the code called and the arguments of that
\* call; a value given to run() is what the parked call returned to the code;
\* and a start function that returns that value finishes with it.
C2_State ==
  call.op = "run" =>
    /\ ret.k = "Interrupted" =>
         /\ body.pc = "import"
         /\ ret.id = module.imports[body.pos].idx
         /\ ret.v = body.args
    /\ (call.v # None /\ ret.k \in {"Interrupted", "Finished"}) => body.acc = call.v
    /\ (call.v # None /\ ret.k = "Finished" /\ ~body.trapped /\ body.result = call.v)
         => ret = Ret("Finished", "", 0, call.v)

\* C2: a call of a function import ends the run() in progress with Interrupted
\* carrying the resolved index and the arguments; the value of the next
\* run(Some(y)) is returned to that parked call, whose import returns a value,
\* and a module that returns it finishes with Finished{Some(y)}; each
\* Interrupted outcome is the next call the code makes.
C2_InterruptResume ==
  /\ []C2_State
  /\ [][(Run /\ ret'.k = "Interrupted") => body'.ncalls = body.ncalls + 1]_vars
  /\ [][(Run /\ call'.v # None /\ ret'.k \in {"Interrupted", "Finished"}) =>
          (ret.k = "Interrupted" /\ body.nres = 1 /\ body'.acc = call'.v)]_vars

C2_Witness ==
  /\ call = Call("run", "", 0, Some(1))
  /\ ret = Ret("Finished", "", 0, Some(1))
  /\ body.ncalls = 2

\* The step C3 is about: the first run(None) after a successful start() of a
\* module without imports whose start function returns no result.
C3_Step ==
  /\ call.op = "start" /\ ret.k = "Ok"
  /\ module.imports = <<>>
  /\ body.start_nres = 0
  /\ run(None)

\* C3 as stated: that run() yields Finished with result None, and
\* is_poisoned() is true afterwards.
C3_Original ==
  [][C3_Step => (ret' = Ret("Finished", "", 0, None) /\ is_poisoned')]_vars

\* C3 as amended: that run() yields Finished and is_poisoned() is true
\* afterwards; the result is None when the start function returns, and the
\* failure when it traps.
C3_FinishedNone ==
  [][C3_Step =>
       /\ is_poisoned'
       /\ ret' = IF body'.trapped THEN Ret("Finished", "Err", 0, None)
                                  ELSE Ret("Finished", "", 0, None)]_vars

C3_Witness ==
  /\ module.imports = <<>> /\ body.start_nres = 0
  /\ call = Call("run", "", 0, None)
  /\ ret = Ret("Finished", "", 0, None)
  /\ ~body.trapped /\ is_poisoned


\* The length of the last memory access and the end of its range.
AccessLen == IF call.op = "read_memory" THEN call.v[1] ELSE Len(call.v)
AccessEnd == call.off + AccessLen

\* C4: read_memory and write_memory return an error, and do not panic,
\* whenever offset + size overflows or is greater than memory_size().
C4_RangeErrorReturned ==
  (call.op \in {"read_memory", "write_memory"} /\ AccessEnd > memory_size)
    => ret = Ret("Err", "()", 0, None)

\* What C5 says of the state after a memory access, on the machines `has`
\* admits: a write within the memory succeeds, and a read of the range of the
\* last write, with no run() since, returns the bytes written.
C5_State(has) ==
  /\ (call.op = "write_memory" /\ has /\ AccessEnd <= memory_size)
       => (ret = Ret("Ok", "", 0, None) /\ wrote = [valid |-> TRUE, off |-> call.off,
                                                   bytes |-> call.v])
  /\ (call.op = "read_memory" /\ wrote.valid /\ call.off = wrote.off
        /\ AccessLen = Len(wrote.bytes))
       => ret = Ret("Ok", "", 0, wrote.bytes)

\* A successful write leaves the bytes outside its range as they were.
C5_Frame ==
  [][(call'.op = "write_memory" /\ ret'.k = "Ok") =>
       \A i \in 1..Len(mem) :
         (i <= call'.off \/ i > call'.off + Len(call'.v)) => mem'[i] = mem[i]]_vars

\* C5 as stated: for every offset O and N bytes with O + N <= memory_size(),
\* write_memory(O, bytes) succeeds, a following read_memory(O, N) with no
\* run() in between returns those bytes, and the bytes outside [O, O+N) are
\* unchanged.
C5_Original == []C5_State(TRUE) /\ C5_Frame

\* C5 as amended: the same, on a machine that has a memory.
C5_RoundTrip == []C5_State(jit.memory # "none") /\ C5_Frame

C5_Witness ==
  /\ call = Call("read_memory", "", 1, <<1>>)
  /\ wrote = [valid |-> TRUE, off |-> 1, bytes |-> <<1>>]
  /\ ret = Ret("Ok", "", 0, <<1>>)
  /\ mem = <<0, 1>>

\* The resolver reported a function import of the module as unresolved.
UnresolvedReported == ImportLoop(module.imports, 1, FALSE).st = "unwrap@63"

\* C6: when the resolver reports a function import as unresolved, new()
\* returns an unresolved-import error; no Prototype is produced and the body
\* routine has not been started.
C6_UnresolvedImportError ==
  (call.op = "new" /\ UnresolvedReported)
    => (ret.k = "Err" /\ phase = "failed" /\ body.pc = "unstarted")

\* The export the last call named.
Named == get_export(module, call.name)

\* C7: global_value(name) returns NotFound when the module has no export
\* called name, and the value of the global, as an unsigned word, when name is
\* an exported 32-bit integer global; whatever calls came before.
C7_GlobalValue ==
  call.op = "global_value" =>
    /\ Named.kind = "none" => ret = Ret("Err", "NotFound", 0, None)
    /\ (Named.kind = "global" /\ Named.ty = "i32")
         => ret = Ret("Ok", "", Named.n % (U32Max + 1), None)

C7_Witness ==
  /\ call = Call("global_value", "g", 0, None)
  /\ Named = GlobalExport("i32", 42)
  /\ ret = Ret("Ok", "", 42, None)

\* C8 as stated: global_value(name) returns Invalid for every export that is
\* present but is not a 32-bit integer global, whatever its extern kind, and
\* NotFound only when no export has that name.
C8_Original ==
  call.op = "global_value" =>
    /\ (Named.kind # "none" /\ ~(Named.kind = "global" /\ Named.ty = "i32"))
         => ret = Ret("Err", "Invalid", 0, None)
    /\ ret.e = "NotFound" => Named.kind = "none"

\* C8 as amended: global_value(name) returns Invalid for an exported global
\* of another value kind, and NotFound for an export of another extern kind
\* (function, memory, table) as for a name that is not exported.
C8_InvalidGlobal ==
  call.op = "global_value" =>
    /\ (Named.kind = "global" /\ Named.ty # "i32") => ret = Ret("Err", "Invalid", 0, None)
    /\ Named.kind # "global" => ret = Ret("Err", "NotFound", 0, None)
    /\ ret.k = "Err" => (ret.e = "Invalid" <=> Named.kind = "global")

C8_Witness ==
  /\ call = Call("global_value", "g", 0, None)
  /\ Named = GlobalExport("i64", 7)
  /\ ret = Ret("Err", "Invalid", 0, None)

\* C9: start(name) returns FunctionNotFound when no export is called name and
\* NotAFunction when that export is not a function; the entry function is not
\* invoked, no running machine is produced, and the Prototype is consumed: no
\* call can be issued on it any more.
C9_StartErrors ==
  (call.op = "start" /\ Named.kind # "func") =>
    /\ ret = Ret("Err", IF Named.kind = "none" THEN "FunctionNotFound" ELSE "NotAFunction",
                 0, None)
    /\ phase = "failed"
    /\ ~body.invoked
    /\ ~ENABLED NextMem

C9_Witness ==
  /\ call = Call("start", "g", 0, None)
  /\ ret = Ret("Err", "NotAFunction", 0, None)
  /\ phase = "failed"

\* The module imports a memory; the module exports a memory as "memory".
ImportsMemory == \E p \in DOMAIN module.imports : module.imports[p].kind = "memory"
ExportsMemory == module.exports["memory"].kind = "memory"

\* C10: a start() of an existing function resolves the machine's memory as
\* the imported one, the exported one or none; with both an imported and an
\* exported memory it returns an error to the caller and yields no machine.
C10_MemoryResolved ==
  (call.op = "start" /\ Named.kind = "func") =>
    IF ImportsMemory /\ ExportsMemory
      THEN ret.k = "Err" /\ phase = "failed"
      ELSE /\ ret.k = "Ok" /\ phase = "jit"
           /\ jit.memory = IF ImportsMemory THEN "imported"
                           ELSE IF ExportsMemory THEN "exported" ELSE "none"

\* The import loop of `new` came to its end: the body routine was run.
ImportsAccepted == ImportLoop(module.imports, 1, FALSE).st = "ok"
WrongKind(name, kind) == get_export(module, name).kind \notin {"none", kind}
NewFailed(e) ==
  /\ ret = Ret("Err", e, 0, None)
  /\ phase = "failed"
  /\ body.pc = "dead"

RetFinishedErr == Ret("Finished", "Err", 0, None)
\* The value the start function returned, as Finished carries it.
Returned == IF body.start_nres = 0 THEN None ELSE Some(body.result[1])
C12_State ==
  (call.op = "run" /\ ret.k = "Finished") =>
     /\ is_poisoned
     /\ IF body.trapped THEN ret = RetFinishedErr
        ELSE /\ Len(body.result) = body.start_nres
             /\ ret = Ret("Finished", "", 0, Returned)
C12_Trap == (~body.trapped /\ body'.trapped) => (ret' = RetFinishedErr /\ is_poisoned')
C12_Return ==
  (call'.op = "run" /\ ~is_finished(body) /\ is_finished(body') /\ ~body'.trapped)
     => (ret'.k = "Finished" /\ ret'.e = "")
C12_Poisoned == (is_poisoned /\ call'.op = "run") => ret' = RetPoisoned

\* C12: the run in which the entry function traps, be it the first or one
\* after any number of interrupts, returns Finished carrying the failure
\* result and not an error of run; the run in which it returns normally
\* returns Finished carrying no value for a function without result and its
\* value for a function with one; the machine is poisoned afterwards.
C12_TrapFinishes ==
  /\ []C12_State
  /\ [][C12_Trap]_vars
  /\ [][C12_Return]_vars
  /\ [][C12_Poisoned]_vars
C12_Witness ==
  /\ call.op = "run"
  /\ ret = RetFinishedErr
  /\ body.trapped
  /\ body.ncalls > 0
  /\ is_poisoned

C13_State ==
  /\ is_poisoned <=> finished_seen
  /\ is_poisoned => phase \in {"jit", "panicked"}
  /\ (phase = "jit" /\ (call.op = "start" \/ ret.k = "Interrupted")) => ~is_poisoned
C13_Stable == is_poisoned => is_poisoned'

\* C13: is_poisoned() is true exactly when an earlier run() of the machine
\* returned Finished: it is false from start() through every Interrupted
\* outcome and, once true, it is never false again.
C13_PoisonedIffFinished == []C13_State /\ [][C13_Stable]_vars
C13_Witness ==
  /\ phase = "jit"
  /\ is_poisoned
  /\ finished_seen
  /\ ret.k = "Finished"
  /\ ~body.trapped

\* The fallback branches of new, global_value, start and the request loop.
Fallbacks ==
  {"unreachable@207", "unreachable@223", "unreachable@236", "unreachable@245", "todo@165"}
C14_Exchange(x) ==
  /\ x.pc = "unstarted" => (x.req = "None" /\ x.out = "Init")
  /\ x.out = "Init" => (x.pc = "unstarted" \/ x.req = "Start")
  /\ x.req = "Start" => x.out = "Init"
  /\ x.req = "GetGlobal" => x.out = "GetGlobalResponse"
  /\ x.req = "GetMemoryTable" => x.out = "GetMemoryTableResponse"
  /\ x.req = "Resume" => x.pc # "loop"
  /\ x.pc = "loop" => x.req \in {"GetGlobal", "GetMemoryTable", "Start"}

\* C14: the first message of the body is an Init, a second Init is only the
\* answer to a Start request, a GetGlobal request is answered by a
\* GetGlobalResponse and a GetMemoryTable request by a GetMemoryTableResponse,
\* and the body is never resumed with a Resume while it is in the request loop
\* before the start; so no fallback branch of new, global_value, start or the
\* request loop is ever taken.
C14_Protocol ==
  /\ \A i \in DOMAIN exch : C14_Exchange(exch[i])
  /\ (call.op = "new" /\ ret.k # "Panic") => (Len(exch) = 1 /\ exch[1].pc = "unstarted")
  /\ ret.k = "Panic" => ret.e \notin Fallbacks
C14_Witness ==
  /\ call.op = "start"
  /\ phase = "jit"
  /\ Len(exch) = 2
  /\ exch[1] = [pc |-> "loop", req |-> "GetMemoryTable", out |-> "GetMemoryTableResponse"]
  /\ exch[2] = [pc |-> "loop", req |-> "Start", out |-> "Init"]

\* The fallback branches of Jit::run.
RunFallbacks == {"unreachable@358", "unreachable@360", "unreachable@363"}

\* C15: once start() has returned a running machine, every message the body
\* hands to Jit::run is an Interrupt or a Finished: Init, GetGlobalResponse and
\* GetMemoryTableResponse never reach it, and its fallback branches are never
\* taken.
C15_RunOutcomes ==
  call.op = "run" =>
    /\ \A i \in DOMAIN exch :
          /\ exch[i].req = "Resume"
          /\ exch[i].pc \in {"ack", "import"}
          /\ exch[i].out \in {"Interrupt", "Finished"}
    /\ ret.k = "Interrupted" => (Len(exch) = 1 /\ exch[1].out = "Interrupt")
    /\ ret.k = "Finished" => (Len(exch) = 1 /\ exch[1].out = "Finished")
    /\ ret.k = "Panic" => ret.e \notin RunFallbacks
C15_Witness ==
  /\ call.op = "run"
  /\ ret.k = "Interrupted"
  /\ exch = <<[pc |-> "import", req |-> "Resume", out |-> "Interrupt"]>>

C16_State ==
  (phase \in {"init", "proto", "failed"} \/ call.op \in {"new", "global_value", "start"})
     => ~body.invoked
C16_Invoke ==
  (~body.invoked /\ body'.invoked)
     => /\ body.pc = "ack"
        /\ call.op = "start" /\ ret.k = "Ok"
        /\ call' = Call("run", "", 0, None)
C16_FirstRun ==
  (call.op = "start" /\ call'.op = "run")
     => IF call'.v = None
          THEN body'.invoked /\ ret'.k \in {"Interrupted", "Finished"}
          ELSE ~body'.invoked /\ ret' = Ret("Panic", "assert@186", 0, None)

\* C16: the entry function is invoked only after the second Init(Ok) and the
\* driver's acknowledgment by a resume without payload: no sequence of new,
\* global_value and start calls invokes it, the first run() after start()
\* invokes it exactly when it is run(None), and a first run(Some(v)) fails the
\* body's assertion on the acknowledgment instead.
C16_EntryAfterAck ==
  /\ []C16_State
  /\ [][C16_Invoke]_vars
  /\ [][C16_FirstRun]_vars
C16_Witness ==
  /\ call.op = "run"
  /\ call.v # None
  /\ ret = Ret("Panic", "assert@186", 0, None)
  /\ ~body.invoked

DriverHolds == ctl.driver \in {"idle", "returned"}
BodyHolds == ctl.body = "running"
\* Where the body is parked between driver calls.
ParkedAt ==
  CASE phase = "proto" -> {"loop"}
    [] phase = "failed" -> {"dead"}
    [] phase = "jit" -> {"ack", "import", "finished"}
    [] OTHER -> {"unstarted", "loop", "dead", "ack", "import", "finished"}
C17_State ==
  /\ DriverHolds # BodyHolds
  /\ ctl.driver = "blocked" <=> BodyHolds
  /\ ctl.driver = "idle" => body.pc \in ParkedAt
  /\ body.parked = (IF body.pc = "import" THEN 1 ELSE 0)
C17_Step == body' # body => (BodyHolds \/ call'.op \in {"new", "global_value", "start"})

\* C17: either the driver or the body holds control and never both: during a
\* driver call the body runs and the driver is blocked, between driver calls
\* the body is parked at an interrupt or finished, the body advances only
\* while a driver call is in progress, and at most one import trampoline is
\* parked at a time.
C17_OneHoldsControl == []C17_State /\ [][C17_Step]_vars
C17_Witness ==
  /\ ctl.driver = "blocked"
  /\ BodyHolds
  /\ body.pc = "import"
  /\ body.parked = 1
  /\ ctl.req.t = "Resume"

C18_Frame ==
  call'.op = "global_value" =>
     /\ ret'.k \in {"Ok", "Err"}
     /\ body' = body /\ body'.pc = "loop"
     /\ phase' = phase /\ phase' = "proto"
     /\ UNCHANGED <<module, usize_max, imported_memory, jit, mem, finished_seen, nruns, ctl>>
C18_Repeat ==
  (call.op = "global_value" /\ call'.op = "global_value" /\ call'.name = call.name)
     => ret' = ret

\* C18: a global_value call leaves the prototype as it was: the body is parked
\* in its request loop again with the same memory and table handles, the
\* imported memory and everything else start() and run() depend on are
\* unchanged, and the same call made again returns the same result.
C18_GlobalValueFrame == [][C18_Frame]_vars /\ [][C18_Repeat]_vars
C18_Witness ==
  /\ call.op = "global_value"
  /\ ret.k = "Ok"
  /\ phase = "proto"
  /\ body.pc = "loop"
  /\ body.memory
  /\ imported_memory

\* The value of a run() matches the result arity of the import parked in body.
ArityMatches(value) == (value = None) <=> (body.nres = 0)
C19_Resume ==
  (call'.op = "run" /\ body.pc = "import" /\ phase = "jit")
     => IF ArityMatches(call'.v)
          THEN /\ ret'.k \in {"Interrupted", "Finished"}
               /\ body.nres = 1 => body'.acc = call'.v
               /\ body.nres = 0 => body'.acc = body.acc
          ELSE /\ ret'.k = "Panic"
               /\ ret'.e = (IF call'.v = None THEN "assert@82" ELSE "assert@79")
               /\ body' = body

\* C19: the value given to run() after an Interrupted outcome has to match
\* the result arity of the parked import: run() does not check it, a
\* mismatch is not returned as an error of run but fails the assertion of the
\* trampoline, and on a match the import call returns exactly the value
\* given.
C19_ResumeArity == [][C19_Resume]_vars
C19_Witness ==
  /\ call.op = "run"
  /\ call.v = None
  /\ body.pc = "import"
  /\ body.nres = 1
  /\ ret = Ret("Panic", "assert@82", 0, None)

C20_Count ==
  phase = "jit" =>
     /\ nruns = body.ncalls + (IF finished_seen THEN 1 ELSE 0)
     /\ nruns <= MaxCalls + 1
     /\ (call.op = "run" /\ ~finished_seen) => ret.k = "Interrupted"
C20_Step ==
  (call'.op = "run" /\ ~is_poisoned)
     => /\ nruns' = nruns + 1
        /\ \/ ret'.k = "Interrupted" /\ body'.ncalls = body.ncalls + 1 /\ ~is_poisoned'
           \/ ret'.k = "Finished" /\ body'.ncalls = body.ncalls /\ is_poisoned'
C20_Finishes == (phase = "jit" /\ ~is_poisoned) ~> (is_poisoned /\ ret.k = "Finished")

\* C20: with a driver that answers every Interrupted outcome with one run()
\* of the matching arity, every run() returns one outcome, the runs before
\* the last return Interrupted, one for each import call of the entry
\* function, the run after the last import call returns Finished, and the
\* machine reaches the poisoned Finished state after one run() more than the
\* entry function made import calls.
C20_RunsToFinished == []C20_Count /\ [][C20_Step]_vars /\ C20_Finishes
C20_Witness ==
  /\ phase = "jit"
  /\ ret.k = "Finished"
  /\ is_poisoned
  /\ body.ncalls = MaxCalls
  /\ nruns = MaxCalls + 1

====
